---- MODULE Spec2Model ----
(***************************************************************************)
(* Model of src/main.cpp: an AVX2 sum over a vector<double> through        *)
(* aligned loads (sum_aligned) and through loads at a byte offset          *)
(* (sum_misaligned), the two allocators, and main's benchmark sequence.    *)
(*                                                                         *)
(* Doubles that hold data are modelled as exact integers.  A double in     *)
(* memory is SizeofDouble bytes, little-endian, each byte a digit in       *)
(* radix ByteRadix, so a load at an address that is not a multiple of      *)
(* SizeofDouble reassembles bytes of two neighbouring elements.  Doubles   *)
(* that hold times are exact rationals with IEEE NaN and infinity.         *)
(* size_t is SizeBits wide (64 in the build); int values stay far below    *)
(* it, as 2^31 stays below 2^64.                                           *)
(***************************************************************************)
EXTENDS Integers, Sequences, FiniteSets, TLC

\* ------------------------------------------------------------- bounds
MaxElem    == 1   \* largest element value given to the kernel alone
MaxSize    == 4   \* largest --size given to main
MaxIter    == 2   \* largest --iterations given to main
MaxElapsed == 1   \* largest elapsed time of one timed call, in ns
MaxSeed    == 0   \* largest seed std::random_device hands out
MaxBaseIdx == 1   \* allocations start at 32, 40, ..., 32 + 8 * MaxBaseIdx
ByteRadix  == 2   \* values one byte can hold (256 in the build)
SizeBits   == 10  \* width of size_t (64 in the build)

\* -------------------------------------------------- program constants
VecWidth     == 4      \* doubles per __m256d: "i += 4"
VecBytes     == 32     \* bytes per __m256d, the alignment _mm256_load_pd needs
SizeofDouble == 8      \* sizeof(double)
Repeats      == 10     \* int repeats = 10
AllocAlign   == 8      \* _mm_malloc(..., 8)
SlackBytes   == 8      \* "+ 8" of MisalignedAllocator::allocate
ClampOffset  == 4      \* "offset = 4"
RandMin      == 0      \* random_double(0.0, 10000.0)
RandMax      == 10000

\* the element counts the kernel alone is run on: 0 .. 2 * width + width - 1
MaxCount == 2 * VecWidth + VecWidth - 1

SizeTMod == 2 ^ SizeBits
\* std::vector<double>::max_size(): PTRDIFF_MAX / sizeof(double)
VectorMaxSize == ((SizeTMod \div 2) - 1) \div SizeofDouble
\* conversion of an int to size_t
ToSizeT(x) == x % SizeTMod

ByteVals == 0 .. (ByteRadix - 1)

\* ----------------------------------------------- doubles in memory
\* object representation of a double: SizeofDouble bytes, little-endian
DoubleBytes(v) ==
    [k \in 1 .. SizeofDouble |-> (v \div (ByteRadix ^ (k - 1))) % ByteRadix]

RECURSIVE BytesValue(_, _)
\* the value of the bytes bs[k .. SizeofDouble] read as (part of) a double
BytesValue(bs, k) ==
    IF k > SizeofDouble THEN 0
    ELSE bs[k] * (ByteRadix ^ (k - 1)) + BytesValue(bs, k + 1)

\* the byte at distance b from the start of allocation mem; a byte outside
\* the allocation reads as junk
ByteAt(mem, b, junk) ==
    IF b >= 0 /\ b < Len(mem) THEN mem[b + 1] ELSE junk

\* *(double* )((char* )base + b)
LoadDouble(mem, b, junk) ==
    BytesValue([k \in 1 .. SizeofDouble |-> ByteAt(mem, b + k - 1, junk)], 1)

\* the bytes touched by a read of n doubles at distance b
BytesOf(b, n) == b .. (b + n * SizeofDouble - 1)

RECURSIVE FlattenBytes(_, _)
\* the memory image of the elements vals[k .. Len(vals)]
FlattenBytes(vals, k) ==
    IF k > Len(vals) THEN << >>
    ELSE DoubleBytes(vals[k]) \o FlattenBytes(vals, k + 1)

\* ------------------------------------------------------ random_double
\* std::mt19937 seeded once from std::random_device, then deterministic:
\* modelled by a full-period linear congruential generator on 0 .. 15.
GenStep(g) == (5 * g + 3) % 16

\* uniform_real_distribution(min, max) applied to the generator's output
Distribute(min, max, out) == min + (out % (max - min + 1))

RECURSIVE FillLoop(_, _, _, _)
\* "for (auto& val : data) val = random_double(0.0, 10000.0);" from element
\* k on: the values written and the generator left behind
FillLoop(k, n, g, vals) ==
    IF k > n THEN [gen |-> g, vals |-> vals]
    ELSE FillLoop(k + 1, n, GenStep(g),
                  Append(vals, Distribute(RandMin, RandMax, GenStep(g))))

\* ------------------------------------------------------- sum_aligned
ZeroVec == [j \in 1 .. VecWidth |-> 0]

RECURSIVE AlignedVecLoop(_, _, _, _)
\* "for (; i + 3 < size; i += 4)" with _mm256_load_pd and _mm256_add_pd
AlignedVecLoop(i, size, container, st) ==
    IF i + 3 < size
    THEN AlignedVecLoop(i + 4, size, container,
            [sum_vec |-> [j \in 1 .. VecWidth |->
                              st.sum_vec[j] + container[i + j]],
             loads   |-> Append(st.loads, i)])
    ELSE [i |-> i, sum_vec |-> st.sum_vec, loads |-> st.loads]

RECURSIVE AlignedTailLoop(_, _, _, _)
\* "for (; i < size; ++i) sum += container[i];"
AlignedTailLoop(i, size, container, st) ==
    IF i < size
    THEN AlignedTailLoop(i + 1, size, container,
            [sum |-> st.sum + container[i + 1], reads |-> Append(st.reads, i)])
    ELSE st

\* a mutant of HorizontalAdd that leaves the last lane out
HorizontalAdd_ThreeLanes(sum, result) ==
    sum + result[1] + result[2] + result[3]

\* "for (int j = 0; j < 4; ++j) sum += result[j];"
HorizontalAdd(sum, result) ==
    sum + result[1] + result[2] + result[3] + result[4]

RECURSIVE RepeatLoop(_, _, _, _)
\* "for (int r = 0; r < repeats; ++r) { ... total_sum += sum; }": every
\* pass reads the same memory and so adds the same sum
RepeatLoop(r, repeats, total_sum, sum) ==
    IF r < repeats THEN RepeatLoop(r + 1, repeats, total_sum + sum, sum)
    ELSE total_sum

\* one pass of sum_aligned's outer loop
AlignedPass(size, container) ==
    LET v == AlignedVecLoop(0, size, container,
                            [sum_vec |-> ZeroVec, loads |-> << >>])
        t == AlignedTailLoop(v.i, size, container,
                             [sum |-> 0, reads |-> << >>])
    IN  [sum     |-> HorizontalAdd(t.sum, v.sum_vec),
         sum_vec |-> v.sum_vec,
         loads   |-> v.loads,
         reads   |-> t.reads]

\* sum_aligned(size, container, repeats): the value returned, and what the
\* last pass loaded (first index of each vector load, index of each scalar
\* read) and accumulated
sum_aligned(size, container, repeats) ==
    LET p == AlignedPass(size, container)
    IN  [value   |-> RepeatLoop(0, repeats, 0, p.sum) \div repeats,
         sum_vec |-> p.sum_vec,
         loads   |-> p.loads,
         reads   |-> p.reads]

\* ---------------------------------------------------- sum_misaligned
\* "size - (byte_offset / sizeof(double))" in size_t arithmetic
AdjustedSize(size, byte_offset) ==
    (size - (ToSizeT(byte_offset) \div SizeofDouble)) % SizeTMod

RECURSIVE MisalignedVecLoop(_, _, _, _, _, _)
\* "for (; i + 3 < adjusted_size; i += 4)" with _mm256_loadu_pd
MisalignedVecLoop(i, adjusted_size, mem, byte_offset, junk, st) ==
    IF i + 3 < adjusted_size
    THEN MisalignedVecLoop(i + 4, adjusted_size, mem, byte_offset, junk,
            [sum_vec |-> [j \in 1 .. VecWidth |->
                 st.sum_vec[j]
                 + LoadDouble(mem, byte_offset + (i + j - 1) * SizeofDouble,
                              junk)],
             loads   |-> Append(st.loads, i)])
    ELSE [i |-> i, sum_vec |-> st.sum_vec, loads |-> st.loads]

RECURSIVE MisalignedTailLoop(_, _, _, _, _, _)
\* "for (; i < adjusted_size; ++i) sum += misaligned_ptr[i];"
MisalignedTailLoop(i, adjusted_size, mem, byte_offset, junk, st) ==
    IF i < adjusted_size
    THEN MisalignedTailLoop(i + 1, adjusted_size, mem, byte_offset, junk,
            [sum   |-> st.sum
                       + LoadDouble(mem, byte_offset + i * SizeofDouble, junk),
             reads |-> Append(st.reads, i)])
    ELSE st

\* sum_misaligned(size, container, byte_offset, repeats) over the
\* allocation mem that container.data() points to: the value returned, the
\* element count of the read window, and the bytes read, as distances from
\* container.data()
sum_misaligned(size, mem, byte_offset, repeats, junk) ==
    LET adjusted_size == AdjustedSize(size, byte_offset)
        v == MisalignedVecLoop(0, adjusted_size, mem, byte_offset, junk,
                               [sum_vec |-> ZeroVec, loads |-> << >>])
        t == MisalignedTailLoop(v.i, adjusted_size, mem, byte_offset, junk,
                                [sum |-> 0, reads |-> << >>])
        sum == HorizontalAdd(t.sum, v.sum_vec)
    IN  [value  |-> RepeatLoop(0, repeats, 0, sum) \div repeats,
         window |-> VecWidth * Len(v.loads) + Len(t.reads),
         loads  |-> v.loads,
         bytes  |-> UNION ({BytesOf(byte_offset + v.loads[k] * SizeofDouble,
                                    VecWidth) : k \in 1 .. Len(v.loads)}
                           \cup
                           {BytesOf(byte_offset + t.reads[k] * SizeofDouble, 1)
                               : k \in 1 .. Len(t.reads)})]

\* ------------------------------------------------- doubles holding times
RECURSIVE Gcd(_, _)
Gcd(a, b) == IF b = 0 THEN a ELSE Gcd(b, a % b)

Abs(x) == IF x < 0 THEN 0 - x ELSE x

\* the finite double n / d (d # 0), in lowest terms; the sign of a zero is
\* not kept
Rat(n, d) ==
    LET g == Gcd(Abs(n), Abs(d))
        s == IF d < 0 THEN 0 - 1 ELSE 1
    IN  [k |-> "num", n |-> (s * n) \div g, d |-> (s * d) \div g]

FromInt(i) == Rat(i, 1)
NaN        == [k |-> "nan", n |-> 0, d |-> 1]
Infinity   == [k |-> "inf", n |-> 1, d |-> 1]
\* a double that was never assigned
Unset      == [k |-> "unset", n |-> 0, d |-> 1]

\* a + b of finite doubles
FAdd(a, b) == Rat(a.n * b.d + b.n * a.d, a.d * b.d)

\* a / b in IEEE arithmetic, for operands that are not negative
FDiv(a, b) ==
    IF a.k = "nan" \/ b.k = "nan" THEN NaN
    ELSE IF a.k = "inf" THEN (IF b.k = "inf" THEN NaN ELSE Infinity)
    ELSE IF b.k = "inf" THEN FromInt(0)
    ELSE IF b.n = 0 THEN (IF a.n = 0 THEN NaN ELSE Infinity)
    ELSE Rat(a.n * b.d, a.d * b.n)

\* a < b in IEEE arithmetic (false when either is NaN)
FLess(a, b) ==
    IF a.k = "nan" \/ b.k = "nan" THEN FALSE
    ELSE IF a.k = "inf" THEN FALSE
    ELSE IF b.k = "inf" THEN TRUE
    ELSE a.n * b.d < b.n * a.d

\* ----------------------------------------------------------- allocators
\* bytes of the block AlignedAllocator<double>::allocate(n) asks for
AlignedAllocate(n) == n * SizeofDouble

\* a mutant of MisalignedAllocate without the slack
MisalignedAllocate_NoSlack(n) == n * SizeofDouble

\* bytes of the block MisalignedAllocator<double>::allocate(n) asks for
MisalignedAllocate(n) == n * SizeofDouble + SlackBytes

\* the addresses _mm_malloc(bytes, 8) may return: multiples of AllocAlign
AllocBases == {VecBytes + AllocAlign * k : k \in 0 .. MaxBaseIdx}

\* ---------------------------------------------------------------- state
VARIABLES
    pc,                     \* the statement main (or the kernel run) is at
    size, offset, iter,     \* auto [size, offset, iter]
    warned,                 \* the std::cerr line was written
    exc,                    \* what ended the process early
    gen,                    \* random_double's static generator, -1 unseeded
    mis_base, mis_mem,      \* missaliged_data: data() and the block's bytes
    al_base, al_data,       \* alligned_data: data() and the elements
    r_mis, r_al,            \* the two loops' "int r"
    misaligned_time_total, misaligned_time_avg,
    aligned_time_total, aligned_time_avg,
    speedup,
    mis_sum, al_sum,        \* the "volatile double sum" of the last call
    output,                 \* what zen::print has written
    phases,                 \* history: the phases the run went through
    mis_read,               \* history: addresses of the bytes sum_misaligned read
    mis_window,             \* history: elements sum_misaligned read, last call
    al_loads,               \* history: addresses of _mm256_load_pd loads
    k_size, k_container, k_result   \* a run of sum_aligned on its own

argVars    == << size, offset, iter, warned >>
misVars    == << mis_base, mis_mem >>
alVars     == << al_base, al_data >>
misTimeVars == << r_mis, misaligned_time_total, misaligned_time_avg, mis_sum,
                  mis_read, mis_window >>
alTimeVars == << r_al, aligned_time_total, aligned_time_avg, al_sum, al_loads >>
kernelVars == << k_size, k_container, k_result >>

vars == << pc, size, offset, iter, warned, exc, gen, mis_base, mis_mem,
           al_base, al_data, r_mis, r_al, misaligned_time_total,
           misaligned_time_avg, aligned_time_total, aligned_time_avg, speedup,
           mis_sum, al_sum, output, phases, mis_read, mis_window, al_loads,
           k_size, k_container, k_result >>

\* the values "--size", "--offset" and "--iterations" are given (std::stoi)
SizeArgs   == (0 - 1) .. MaxSize
OffsetArgs == (0 - 1) .. (SizeofDouble * MaxSize + 1)
IterArgs   == (0 - 1) .. MaxIter
ElapsedNs  == 0 .. MaxElapsed

\* the phase log: entering the phase the run is in already adds nothing
Enter(p) ==
    IF Len(phases) > 0 /\ phases[Len(phases)] = p THEN phases
    ELSE Append(phases, p)

NoResult == [value |-> 0, sum_vec |-> ZeroVec, loads |-> << >>, reads |-> << >>]

\* the state main starts in
MainStart ==
    /\ size = 0 /\ offset = 0 /\ iter = 0
    /\ warned = FALSE
    /\ exc = "none"
    /\ gen = 0 - 1
    /\ mis_base = 0 /\ mis_mem = << >>
    /\ al_base = 0 /\ al_data = << >>
    /\ r_mis = 0 /\ r_al = 0
    /\ misaligned_time_total = Unset /\ misaligned_time_avg = Unset
    /\ aligned_time_total = Unset /\ aligned_time_avg = Unset
    /\ speedup = Unset
    /\ mis_sum = 0 /\ al_sum = 0
    /\ output = << >>
    /\ phases = << "INIT" >>
    /\ mis_read = {} /\ mis_window = 0
    /\ al_loads = {}

Init ==
    /\ pc = "start"
    /\ MainStart
    /\ k_size = 0 /\ k_container = << >> /\ k_result = NoResult

\* ----------------------------------------------------------------- main
\* line 133: process_args with all three options given.  (Without them it
\* returns {1000000, 5, 100}, a size outside MaxSize.)
ProcessArgs ==
    /\ pc = "start"
    /\ \E s \in SizeArgs, o \in OffsetArgs, i \in IterArgs :
          /\ size' = ToSizeT(s)
          /\ offset' = o
          /\ iter' = i
    /\ pc' = "validate"
    /\ UNCHANGED << warned, exc, gen, misVars, alVars, misTimeVars, alTimeVars,
                    speedup, output, phases, kernelVars >>

\* lines 134-137: "if (offset >= size * sizeof(double)) { ...; offset = 4; }",
\* the comparison made in size_t
ValidateOffset ==
    /\ pc = "validate"
    /\ IF ToSizeT(offset) >= (size * SizeofDouble) % SizeTMod
       THEN offset' = ClampOffset /\ warned' = TRUE
       ELSE UNCHANGED << offset, warned >>
    /\ pc' = "construct_mis"
    /\ UNCHANGED << size, iter, exc, gen, misVars, alVars, misTimeVars,
                    alTimeVars, speedup, output, phases, kernelVars >>

\* line 141: vector(size) allocates through MisalignedAllocator (no call for
\* size 0) and value-initializes the elements; the slack bytes keep whatever
\* the fresh block held
ConstructMisaligned ==
    /\ pc = "construct_mis"
    /\ size <= VectorMaxSize
    /\ IF size = 0
       THEN mis_base' = 0 /\ mis_mem' = << >>
       ELSE \E base \in AllocBases, junk \in ByteVals :
               /\ mis_base' = base
               /\ mis_mem' = [b \in 1 .. MisalignedAllocate(size) |->
                                 IF b <= size * SizeofDouble THEN 0 ELSE junk]
    /\ pc' = "fill_mis"
    /\ UNCHANGED << argVars, exc, gen, alVars, misTimeVars, alTimeVars,
                    speedup, output, phases, kernelVars >>

\* line 141 throwing: std::length_error for a size above max_size(),
\* std::bad_alloc when _mm_malloc returns null; nothing catches either
ConstructMisalignedThrows ==
    /\ pc = "construct_mis"
    /\ size > 0
    /\ exc' = IF size > VectorMaxSize THEN "length_error" ELSE "bad_alloc"
    /\ pc' = "terminated"
    /\ UNCHANGED << argVars, gen, misVars, alVars, misTimeVars, alTimeVars,
                    speedup, output, phases, kernelVars >>

\* lines 142-144; the first call of random_double seeds the generator
FillMisaligned ==
    /\ pc = "fill_mis"
    /\ IF size = 0
       THEN UNCHANGED << gen, mis_mem >>
       ELSE \E seed \in 0 .. MaxSeed :
               LET f == FillLoop(1, size, IF gen < 0 THEN seed ELSE gen, << >>)
               IN  /\ gen' = f.gen
                   /\ mis_mem' = FlattenBytes(f.vals, 1)
                                 \o SubSeq(mis_mem, size * SizeofDouble + 1,
                                           Len(mis_mem))
    /\ pc' = "warm_mis_1"
    /\ UNCHANGED << argVars, exc, mis_base, alVars, misTimeVars, alTimeVars,
                    speedup, output, phases, kernelVars >>

\* lines 145-146: warm_up(missaliged_data), twice; it reads every element
WarmUpMisaligned ==
    /\ pc \in {"warm_mis_1", "warm_mis_2"}
    /\ pc' = IF pc = "warm_mis_1" THEN "warm_mis_2" ELSE "begin_time_mis"
    /\ phases' = Enter("WARM_MISALIGNED")
    /\ UNCHANGED << argVars, exc, gen, misVars, alVars, misTimeVars,
                    alTimeVars, speedup, output, kernelVars >>

\* lines 149-150: "double misaligned_time_total = 0; for (int r = 0; ..."
BeginTimeMisaligned ==
    /\ pc = "begin_time_mis"
    /\ misaligned_time_total' = FromInt(0)
    /\ r_mis' = 0
    /\ pc' = "time_mis"
    /\ phases' = Enter("TIME_MISALIGNED")
    /\ UNCHANGED << argVars, exc, gen, misVars, alVars, misaligned_time_avg,
                    mis_sum, mis_read, mis_window, alTimeVars, speedup, output,
                    kernelVars >>

\* lines 150-155: one timed call of sum_misaligned
IterMisaligned ==
    /\ pc = "time_mis"
    /\ r_mis < iter
    /\ \E e \in ElapsedNs, junk \in ByteVals :
          LET res == sum_misaligned(size, mis_mem, offset, Repeats, junk)
          IN  /\ mis_sum' = res.value
              /\ mis_window' = res.window
              /\ mis_read' = mis_read \cup {mis_base + b : b \in res.bytes}
              /\ misaligned_time_total' =
                     FAdd(misaligned_time_total, FromInt(e))
    /\ r_mis' = r_mis + 1
    /\ UNCHANGED << pc, argVars, exc, gen, misVars, alVars,
                    misaligned_time_avg, alTimeVars, speedup, output, phases,
                    kernelVars >>

\* lines 156-158: the loop is over; the mean is computed and printed
EndTimeMisaligned ==
    /\ pc = "time_mis"
    /\ ~ (r_mis < iter)
    /\ misaligned_time_avg' = FDiv(misaligned_time_total, FromInt(iter))
    /\ output' = Append(output, [label |-> "Misaligned access SIMD",
                                 value |-> misaligned_time_avg'])
    /\ pc' = "construct_al"
    /\ UNCHANGED << argVars, exc, gen, misVars, alVars, r_mis,
                    misaligned_time_total, mis_sum, mis_read, mis_window,
                    alTimeVars, speedup, phases, kernelVars >>

\* line 161: vector(size) through AlignedAllocator
ConstructAligned ==
    /\ pc = "construct_al"
    /\ IF size = 0
       THEN al_base' = 0 /\ al_data' = << >>
       ELSE \E base \in AllocBases :
               /\ al_base' = base
               /\ al_data' = [k \in 1 .. (AlignedAllocate(size) \div SizeofDouble)
                                 |-> 0]
    /\ pc' = "fill_al"
    /\ phases' = Enter("INIT_ALIGNED")
    /\ UNCHANGED << argVars, exc, gen, misVars, misTimeVars, alTimeVars,
                    speedup, output, kernelVars >>

\* line 161 throwing std::bad_alloc
ConstructAlignedThrows ==
    /\ pc = "construct_al"
    /\ size > 0
    /\ exc' = "bad_alloc"
    /\ pc' = "terminated"
    /\ UNCHANGED << argVars, gen, misVars, alVars, misTimeVars, alTimeVars,
                    speedup, output, phases, kernelVars >>

\* a mutant of FillAligned that goes on to the timed loop without warm_up
FillAligned_NoWarmUp ==
    /\ pc = "fill_al"
    /\ IF size = 0
       THEN UNCHANGED << gen, al_data >>
       ELSE \E seed \in 0 .. MaxSeed :
               LET f == FillLoop(1, size, IF gen < 0 THEN seed ELSE gen, << >>)
               IN  gen' = f.gen /\ al_data' = f.vals
    /\ pc' = "begin_time_al"
    /\ UNCHANGED << argVars, exc, misVars, al_base, misTimeVars, alTimeVars,
                    speedup, output, phases, kernelVars >>

\* lines 162-164
FillAligned ==
    /\ pc = "fill_al"
    /\ IF size = 0
       THEN UNCHANGED << gen, al_data >>
       ELSE \E seed \in 0 .. MaxSeed :
               LET f == FillLoop(1, size, IF gen < 0 THEN seed ELSE gen, << >>)
               IN  gen' = f.gen /\ al_data' = f.vals
    /\ pc' = "warm_al_1"
    /\ UNCHANGED << argVars, exc, misVars, al_base, misTimeVars, alTimeVars,
                    speedup, output, phases, kernelVars >>

\* lines 165-166: warm_up(alligned_data), twice
WarmUpAligned ==
    /\ pc \in {"warm_al_1", "warm_al_2"}
    /\ pc' = IF pc = "warm_al_1" THEN "warm_al_2" ELSE "begin_time_al"
    /\ phases' = Enter("WARM_ALIGNED")
    /\ UNCHANGED << argVars, exc, gen, misVars, alVars, misTimeVars,
                    alTimeVars, speedup, output, kernelVars >>

\* lines 169-170
BeginTimeAligned ==
    /\ pc = "begin_time_al"
    /\ aligned_time_total' = FromInt(0)
    /\ r_al' = 0
    /\ pc' = "time_al"
    /\ phases' = Enter("TIME_ALIGNED")
    /\ UNCHANGED << argVars, exc, gen, misVars, alVars, misTimeVars,
                    aligned_time_avg, al_sum, al_loads, speedup, output,
                    kernelVars >>

\* the addresses sum_aligned hands to _mm256_load_pd
AlignedLoadAddrs ==
    {al_base + i * SizeofDouble :
        i \in {AlignedVecLoop(0, size, al_data,
                   [sum_vec |-> ZeroVec, loads |-> << >>]).loads[k] :
               k \in 1 .. (size \div VecWidth)}}

\* lines 170-175: one timed call of sum_aligned that returns.  A load at an
\* address that is no multiple of 32 is undefined; it returns the sum all
\* the same in a build that folds the load into the vaddpd.
IterAligned ==
    /\ pc = "time_al"
    /\ r_al < iter
    /\ \E e \in ElapsedNs :
          /\ al_sum' = sum_aligned(size, al_data, Repeats).value
          /\ aligned_time_total' = FAdd(aligned_time_total, FromInt(e))
    /\ al_loads' = al_loads \cup AlignedLoadAddrs
    /\ r_al' = r_al + 1
    /\ UNCHANGED << pc, argVars, exc, gen, misVars, alVars, misTimeVars,
                    aligned_time_avg, speedup, output, phases, kernelVars >>

\* line 82 faulting: vmovapd at an address that is no multiple of 32 raises
\* a general-protection fault on the first such load
IterAlignedFaults ==
    /\ pc = "time_al"
    /\ r_al < iter
    /\ \E a \in AlignedLoadAddrs :
          /\ a % VecBytes # 0
          /\ \A b \in AlignedLoadAddrs : b % VecBytes # 0 => a <= b
          /\ al_loads' = al_loads \cup {b \in AlignedLoadAddrs : b <= a}
    /\ exc' = "SIGSEGV"
    /\ pc' = "terminated"
    /\ UNCHANGED << argVars, gen, misVars, alVars, misTimeVars, r_al,
                    aligned_time_total, aligned_time_avg, al_sum, speedup,
                    output, phases, kernelVars >>

\* lines 176-178
EndTimeAligned ==
    /\ pc = "time_al"
    /\ ~ (r_al < iter)
    /\ aligned_time_avg' = FDiv(aligned_time_total, FromInt(iter))
    /\ output' = Append(output, [label |-> "Aligned data SIMD",
                                 value |-> aligned_time_avg'])
    /\ pc' = "verify"
    /\ UNCHANGED << argVars, exc, gen, misVars, alVars, misTimeVars, r_al,
                    aligned_time_total, al_sum, al_loads, speedup, phases,
                    kernelVars >>

\* lines 183-191: the addresses and the speedup are printed; return 0
Verify ==
    /\ pc = "verify"
    /\ speedup' = FDiv(aligned_time_avg, misaligned_time_avg)
    /\ output' = output \o
          << [label |-> "Base", value |-> FromInt(mis_base)],
             [label |-> "Misaligned", value |-> FromInt(mis_base + offset)],
             [label |-> "Speedup factor", value |-> speedup'] >>
    /\ pc' = "done"
    /\ phases' = Enter("DONE")
    /\ UNCHANGED << argVars, exc, gen, misVars, alVars, misTimeVars,
                    alTimeVars, kernelVars >>

Next ==
    \/ ProcessArgs
    \/ ValidateOffset
    \/ ConstructMisaligned
    \/ ConstructMisalignedThrows
    \/ FillMisaligned
    \/ WarmUpMisaligned
    \/ BeginTimeMisaligned
    \/ IterMisaligned
    \/ EndTimeMisaligned
    \/ ConstructAligned
    \/ ConstructAlignedThrows
    \/ FillAligned
    \/ WarmUpAligned
    \/ BeginTimeAligned
    \/ IterAligned
    \/ IterAlignedFaults
    \/ EndTimeAligned
    \/ Verify

Spec == Init /\ [][Next]_vars

\* ------------------------------------------------ sum_aligned on its own
\* a call sum_aligned(n, container) for every n in 0 .. MaxCount and every
\* container of n elements in 0 .. MaxElem
KernelInit ==
    /\ pc = "kernel_call"
    /\ MainStart
    /\ k_size \in 0 .. MaxCount
    /\ k_container \in [1 .. k_size -> 0 .. MaxElem]
    /\ k_result = NoResult

CallSumAligned ==
    /\ pc = "kernel_call"
    /\ k_result' = sum_aligned(k_size, k_container, Repeats)
    /\ pc' = "kernel_returned"
    /\ UNCHANGED << argVars, exc, gen, misVars, alVars, misTimeVars,
                    alTimeVars, speedup, output, phases, k_size, k_container >>

KernelNext == CallSumAligned

KernelSpec == KernelInit /\ [][KernelNext]_vars

\* =============================================================== claims
RECURSIVE ScalarSum(_, _)
\* the left-to-right scalar sum of container[0 .. n - 1]
ScalarSum(container, n) ==
    IF n = 0 THEN 0 ELSE ScalarSum(container, n - 1) + container[n]

\* how often a call that loaded as res says added the element at index idx
TouchCount(res, idx) ==
    Cardinality({k \in 1 .. Len(res.loads) :
                    res.loads[k] <= idx /\ idx < res.loads[k] + VecWidth})
    + Cardinality({k \in 1 .. Len(res.reads) : res.reads[k] = idx})

IsPrefix(s, t) ==
    Len(s) <= Len(t) /\ \A k \in 1 .. Len(s) : s[k] = t[k]

CeilDiv(a, b) == (a + b - 1) \div b

\* main is past its offset validation
Validated == pc \notin {"start", "validate", "kernel_call", "kernel_returned"}

\* C1: for every n in 0 .. 11 and every container, sum_aligned(n, container)
\* returns the left-to-right scalar sum of elements [0, n); the vector loop
\* and the scalar tail add each index below n exactly once and no other
\* index; for n < 4 the vector accumulator stays zero, for n = 0 the result
\* is 0.
C1_SumAlignedIsScalarSum ==
    pc = "kernel_returned" =>
        /\ k_result.value = ScalarSum(k_container, k_size)
        /\ \A idx \in 0 .. (MaxCount + VecWidth) :
              TouchCount(k_result, idx) = (IF idx < k_size THEN 1 ELSE 0)
        /\ (k_size < VecWidth => k_result.sum_vec = ZeroVec)
        /\ (k_size = 0 => k_result.value = 0)

\* a call on 11 elements, all of them MaxElem: two vector loads, three
\* scalar reads
C1_Witness ==
    /\ pc = "kernel_returned"
    /\ k_size = MaxCount
    /\ Len(k_result.loads) = 2
    /\ Len(k_result.reads) = 3
    /\ k_result.value = MaxCount * MaxElem

\* C2: every vector load sum_aligned issues with _mm256_load_pd is at an
\* address that is a multiple of 32, whatever base the allocator returned.
C2_AlignedLoadsAreVectorAligned ==
    \A a \in al_loads : a % VecBytes = 0

\* C3: for every (size, byte_offset) main passes on after its validation,
\* every byte sum_misaligned reads lies inside the allocation
\* [base, base + size * 8 + 8), and size - byte_offset / 8 does not wrap.
C3_MisalignedReadsInsideAllocation ==
    /\ \A a \in mis_read : mis_base <= a /\ a < mis_base + Len(mis_mem)
    /\ mis_read # {} => Len(mis_mem) = size * SizeofDouble + SlackBytes
    /\ Validated => /\ ToSizeT(offset) \div SizeofDouble <= size
                    /\ AdjustedSize(size, offset) <= size

\* a call whose vector load read into the slack bytes
C3_Witness ==
    /\ mis_window >= VecWidth
    /\ \E a \in mis_read : a >= mis_base + size * SizeofDouble

\* C4: in every run the sum the misaligned path produced equals the sum the
\* aligned path produced.
C4_SumsAgree ==
    (r_mis > 0 /\ r_al > 0) => mis_sum = al_sum

CodePhaseOrder ==
    << "INIT", "WARM_MISALIGNED", "TIME_MISALIGNED", "INIT_ALIGNED",
       "WARM_ALIGNED", "TIME_ALIGNED", "DONE" >>

C6_OffsetBelowByteLength ==
    Validated => (0 <= offset /\ offset < size * SizeofDouble)

\* C7: every allocation failure comes before any timed block and before any
\* measurement is printed.
C7_AllocationBeforeMeasurement ==
    exc = "bad_alloc" =>
        /\ output = << >>
        /\ \A k \in 1 .. Len(phases) :
              phases[k] \notin {"TIME_MISALIGNED", "TIME_ALIGNED"}

\* C8: for 0 <= byte_offset < element_count * 8 the misaligned read window
\* has element_count - ceil(byte_offset / 8) elements, and no element read
\* extends past byte element_count * 8 of the buffer.
C8_WindowShrunkByCeiling ==
    (r_mis > 0 /\ 0 <= offset /\ offset < size * SizeofDouble) =>
        /\ mis_window = size - CeilDiv(offset, SizeofDouble)
        /\ \A a \in mis_read : a < mis_base + size * SizeofDouble

\* C9: the averaging step never divides by a zero iteration count: a mean
\* latency (total / iterations) is not computed when iterations = 0.
C9_NoMeanOverZeroIterations ==
    /\ misaligned_time_avg.k # "unset" => iter # 0
    /\ aligned_time_avg.k # "unset" => iter # 0

\* C10: the speedup reported is misaligned_mean / aligned_mean, so that a
\* misaligned path slower than the aligned path gives a speedup above 1.
C10_SpeedupIsMisalignedOverAligned ==
    pc = "done" =>
        /\ speedup = FDiv(misaligned_time_avg, aligned_time_avg)
        /\ FLess(aligned_time_avg, misaligned_time_avg) =>
              FLess(FromInt(1), speedup)

====
